---- MODULE Spec2Model ----
(***************************************************************************)
(* Model of schematic's MetadataModel.validateModelManifest and            *)
(* MetadataModel.submit_metadata_manifest (src/schematic/models/           *)
(* metadata.py).  Python str values are sequences of one-character         *)
(* strings, so slicing, formatting and concatenation are computed as the   *)
(* code computes them.  Python objects carry a type tag.                   *)
(***************************************************************************)
EXTENDS Integers, Sequences, FiniteSets, TLC

\* ------------------------------------------------------------------ bounds
\* largest number of data rows of a manifest
MaxRows == 2
\* largest number of pieces of an input text of the curie functions
MaxPieces == 5

\* ------------------------------------------------------- program constants
\* error.message[0:500]
TruncLen == 500
\* errorRow = i + 2 / index + 2
RowOffset == 2

\* ----------------------------------------------------------------- strings
sPatient == <<"P", "a", "t", "i", "e", "n", "t">>
sBiospecimen == <<"B", "i", "o", "s", "p", "e", "c", "i", "m", "e", "n">>
sAssay == <<"A", "s", "s", "a", "y">>
sComponent == <<"C", "o", "m", "p", "o", "n", "e", "n", "t">>
sPatientID == <<"P", "a", "t", "i", "e", "n", "t", "I", "D">>
sSex == <<"S", "e", "x">>
sTags == <<"T", "a", "g", "s">>
sFemale == <<"F", "e", "m", "a", "l", "e">>
sMale == <<"M", "a", "l", "e">>
sFemalePadded == <<" ", "F", "e", "m", "a", "l", "e", " ">>
sOther == <<"O", "t", "h", "e", "r">>
sP1 == <<"P", "1">>
sABC == <<"a", ",", " ", "b", " ", ",", "c">>
sA == <<"a">>
sB == <<"b">>
sC == <<"c">>
sWrongSchema == <<"W", "r", "o", "n", "g", " ", "s", "c", "h", "e", "m", "a">>
sTrue == <<"T", "r", "u", "e">>
sFalse == <<"F", "a", "l", "s", "e">>
sCompMsg1 == <<"C", "o", "m", "p", "o", "n", "e", "n", "t", " ", "v", "a", "l", "u", "e", " ", "p", "r", "o", "v", "i", "d", "e", "d", " ", "i", "s", ":", " ", "'">>
sCompMsg2 == <<"'", ",", " ", "w", "h", "e", "r", "e", "a", "s", " ", "t", "h", "e", " ", "T", "e", "m", "p", "l", "a", "t", "e", " ", "T", "y", "p", "e", " ", "i", "s", ":", " ", "'">>
sQuote == <<"'">>
sNotOneOf == <<" ", "i", "s", " ", "n", "o", "t", " ", "o", "n", "e", " ", "o", "f", " ">>
sRequiredProp == <<" ", "i", "s", " ", "a", " ", "r", "e", "q", "u", "i", "r", "e", "d", " ", "p", "r", "o", "p", "e", "r", "t", "y">>
sNotOfType == <<" ", "i", "s", " ", "n", "o", "t", " ", "o", "f", " ", "t", "y", "p", "e", " ">>
sArray == <<"a", "r", "r", "a", "y">>
sString == <<"s", "t", "r", "i", "n", "g">>
sCommaSpace == <<",", " ">>
sLBracket == <<"[">>
sRBracket == <<"]">>
sLParen == <<"(">>
sRParen == <<")">>
sDotZero == <<".", "0">>
sNotFound1 == <<"T", "h", "e", " ", "c", "o", "m", "p", "o", "n", "e", "n", "t", " ">>
sNotFound2 == <<" ", "c", "o", "u", "l", "d", " ", "n", "o", "t", " ", "b", "e", " ", "f", "o", "u", "n", "d", " ", "i", "n", " ", "t", "h", "e", " ", "s", "c", "h", "e", "m", "a", ".">>
sValFailed == <<"M", "a", "n", "i", "f", "e", "s", "t", " ", "c", "o", "u", "l", "d", " ", "n", "o", "t", " ", "b", "e", " ", "v", "a", "l", "i", "d", "a", "t", "e", "d", " ", "u", "n", "d", "e", "r", " ", "p", "r", "o", "v", "i", "d", "e", "d", " ", "d", "a", "t", "a", " ", "m", "o", "d", "e", "l", ".", " ", "V", "a", "l", "i", "d", "a", "t", "i", "o", "n", " ", "f", "a", "i", "l", "e", "d", " ", "w", "i", "t", "h", " ", "t", "h", "e", " ", "f", "o", "l", "l", "o", "w", "i", "n", "g", " ", "e", "r", "r", "o", "r", "s", ":", " ">>

sHttp == <<"h", "t", "t", "p">>
sRdf == <<"r", "d", "f">>
sRdfs == <<"r", "d", "f", "s">>
sXsd == <<"x", "s", "d">>
sBaseUri == <<"h", "t", "t", "p", ":", "/", "/", "s", "c", "h", "e", "m", "a", ".", "b", "i", "o", "t", "h", "i", "n", "g", "s", ".", "i", "o", "/">>
sRdfUri == <<"h", "t", "t", "p", ":", "/", "/", "w", "w", "w", ".", "w", "3", ".", "o", "r", "g", "/", "1", "9", "9", "9", "/", "0", "2", "/", "2", "2", "-", "r", "d", "f", "-", "s", "y", "n", "t", "a", "x", "-", "n", "s", "#">>
sExtractError == <<"E", "r", "r", "o", "r", " ", "e", "x", "t", "r", "a", "c", "t", "i", "n", "g", " ", "n", "a", "m", "e", " ", "f", "r", "o", "m", " ", "U", "R", "I", " ", "o", "r", " ", "C", "u", "r", "i", "e", ".">>
Digits == <<"0", "1", "2", "3", "4", "5", "6", "7", "8", "9">>

Range(s) == {s[k] : k \in 1..Len(s)}

Min(a, b) == IF a < b THEN a ELSE b

\* a string of n filler characters
Pad(n) == [k \in 1..n |-> "x"]

\* sep.join(ss)
RECURSIVE Join(_, _)
Join(sep, ss) ==
    IF ss = <<>> THEN <<>>
    ELSE IF Len(ss) = 1 THEN ss[1]
    ELSE ss[1] \o sep \o Join(sep, Tail(ss))

\* str(n) for a non-negative int
RECURSIVE IntToStr(_)
IntToStr(n) ==
    IF n < 10 THEN <<Digits[n + 1]>>
    ELSE IntToStr(n \div 10) \o <<Digits[(n % 10) + 1]>>

\* s[0:n]
Slice0(s, n) == SubSeq(s, 1, Min(n, Len(s)))

\* ---------------------------------------------------------- Python objects
PStr(s) == [t |-> "str", s |-> s]
PInt(n) == [t |-> "int", n |-> n]
PFloat(n) == [t |-> "float", n |-> n]
PBool(b) == [t |-> "bool", b |-> b]
PList(xs) == [t |-> "list", xs |-> xs]
PTuple(xs) == [t |-> "tuple", xs |-> xs]

\* repr(s) of a str without double quotes or backslashes
StrRepr(s) ==
    IF "'" \in Range(s) THEN <<"\"">> \o s \o <<"\"">>
    ELSE sQuote \o s \o sQuote

\* repr(v)
RECURSIVE PyRepr(_)
PyRepr(v) ==
    CASE v.t = "str" -> StrRepr(v.s)
      [] v.t = "int" -> IntToStr(v.n)
      [] v.t = "float" -> IntToStr(v.n) \o sDotZero
      [] v.t = "bool" -> IF v.b THEN sTrue ELSE sFalse
      [] v.t = "list" ->
            sLBracket \o Join(sCommaSpace, [k \in 1..Len(v.xs) |-> PyRepr(v.xs[k])]) \o sRBracket
      [] v.t = "tuple" ->
            sLParen \o Join(sCommaSpace, [k \in 1..Len(v.xs) |-> PyRepr(v.xs[k])]) \o sRParen

\* str(v)
PyStr(v) == IF v.t = "str" THEN v.s ELSE PyRepr(v)

\* ------------------------------------------------------------ str helpers
\* s.strip(): the only whitespace of the alphabet is the blank
RECURSIVE LStrip(_)
LStrip(s) == IF s # <<>> /\ Head(s) = " " THEN LStrip(Tail(s)) ELSE s

RECURSIVE RStrip(_)
RStrip(s) == IF s # <<>> /\ s[Len(s)] = " " THEN RStrip(SubSeq(s, 1, Len(s) - 1)) ELSE s

Strip(s) == RStrip(LStrip(s))

\* s.split(","): acc is the token being read
RECURSIVE SplitFrom(_, _, _)
SplitFrom(s, sep, acc) ==
    IF s = <<>> THEN <<acc>>
    ELSE IF Head(s) = sep THEN <<acc>> \o SplitFrom(Tail(s), sep, <<>>)
    ELSE SplitFrom(Tail(s), sep, Append(acc, Head(s)))

Split(s, sep) == SplitFrom(s, sep, <<>>)

\* position of x in the sequence s, 0 when absent
IndexOf(s, x) == IF x \in Range(s) THEN CHOOSE k \in 1..Len(s) : s[k] = x /\ \A j \in 1..(k - 1) : s[j] # x ELSE 0

\* concatenation of a sequence of sequences
RECURSIVE Flatten(_)
Flatten(ss) == IF ss = <<>> THEN <<>> ELSE Head(ss) \o Flatten(Tail(ss))

\* ----------------------------------------------------------- schema graph
\* classes of the loaded schema (self.sg.se)
SchemaClasses == {sPatient, sBiospecimen}

\* validation-rule tags of a node (self.sg.get_node_validation_rules)
get_node_validation_rules(col) == IF col = sTags THEN {"list"} ELSE {}

\* permissible values of a node
NodeEnum(col) == IF col = sSex THEN <<PStr(sFemale), PStr(sMale)>> ELSE <<>>

\* required properties of a root, in graph order
RequiredOf(root) ==
    IF root = sPatient THEN <<sPatientID, sSex, sTags>>
    ELSE IF root = sBiospecimen THEN <<sSex>>
    ELSE <<>>

\* the constraint a node compiles to
NodeConstraint(col) ==
    IF "list" \in get_node_validation_rules(col)
    THEN [kind |-> "array", items |-> [kind |-> "string"]]
    ELSE IF NodeEnum(col) # <<>> THEN [kind |-> "enum", enum |-> NodeEnum(col)]
    ELSE [kind |-> "any"]

\* self.sg.get_json_schema_requirements(rootNode, rootNode + "_validation")
get_json_schema_requirements(root) ==
    [properties |-> [k \in 1..Len(RequiredOf(root)) |->
                        [name |-> RequiredOf(root)[k], sub |-> NodeConstraint(RequiredOf(root)[k])]],
     required |-> RequiredOf(root)]

\* a caller-supplied jsonSchema: Sex enumerated, Tags an array of enumerated items
UserSchema ==
    [properties |-> <<[name |-> sSex, sub |-> [kind |-> "enum", enum |-> <<PStr(sFemale), PStr(sMale)>>]],
                      [name |-> sTags, sub |-> [kind |-> "array",
                                                items |-> [kind |-> "enum", enum |-> <<PStr(sA), PStr(sB)>>]]]>>,
     required |-> <<sSex, sTags>>]

\* ------------------------------------------------- Draft7Validator model
\* errors of one instance against one subschema; keywords in the order
\* type, enum, items
RECURSIVE DescendErrors(_, _, _)
DescendErrors(instance, sub, path) ==
    CASE sub.kind = "any" -> <<>>
      [] sub.kind = "string" ->
            IF instance.t = "str" THEN <<>>
            ELSE <<[path |-> path, validator |-> "type", instance |-> instance,
                    message |-> PyRepr(instance) \o sNotOfType \o StrRepr(sString)]>>
      [] sub.kind = "enum" ->
            IF instance \in Range(sub.enum) THEN <<>>
            ELSE <<[path |-> path, validator |-> "enum", instance |-> instance,
                    message |-> PyRepr(instance) \o sNotOneOf \o PyRepr(PList(sub.enum))]>>
      [] sub.kind = "array" ->
            IF instance.t # "list"
            THEN <<[path |-> path, validator |-> "type", instance |-> instance,
                    message |-> PyRepr(instance) \o sNotOfType \o StrRepr(sArray)]>>
            ELSE Flatten([k \in 1..Len(instance.xs) |->
                            DescendErrors(instance.xs[k], sub.items, Append(path, PInt(k - 1)))])

\* the value of a key of an annotation (a record of aligned keys and vals)
AnnGet(annotation, key) == annotation.vals[IndexOf(annotation.keys, key)]

\* v.iter_errors(annotation): "properties" first, then "required"
iter_errors(schema, annotation) ==
    Flatten([k \in 1..Len(schema.properties) |->
                IF schema.properties[k].name \in Range(annotation.keys)
                THEN DescendErrors(AnnGet(annotation, schema.properties[k].name),
                                   schema.properties[k].sub, <<PStr(schema.properties[k].name)>>)
                ELSE <<>>])
    \o
    Flatten([k \in 1..Len(schema.required) |->
                IF schema.required[k] \in Range(annotation.keys) THEN <<>>
                ELSE <<[path |-> <<>>, validator |-> "required", instance |-> annotation,
                        message |-> StrRepr(schema.required[k]) \o sRequiredProp]>>])

\* jsonschema.exceptions.relevance: (-len(path), validator not in weak, validator in strong)
WeakValidators == {"anyOf", "oneOf"}
StrongValidators == {}

B2N(b) == IF b THEN 1 ELSE 0

relevance(error) ==
    <<0 - Len(error.path), B2N(error.validator \notin WeakValidators), B2N(error.validator \in StrongValidators)>>

\* tuple comparison a < b
KeyLess(a, b) ==
    \/ a[1] < b[1]
    \/ a[1] = b[1] /\ a[2] < b[2]
    \/ a[1] = b[1] /\ a[2] = b[2] /\ a[3] < b[3]

\* insert e after every element whose key is not greater (stable)
RECURSIVE InsertSorted(_, _)
InsertSorted(sorted, e) ==
    IF sorted = <<>> THEN <<e>>
    ELSE IF KeyLess(relevance(e), relevance(Head(sorted))) THEN <<e>> \o sorted
    ELSE <<Head(sorted)>> \o InsertSorted(Tail(sorted), e)

\* sorted(errs, key=exceptions.relevance)
RECURSIVE SortedByRelevance(_)
SortedByRelevance(errs) ==
    IF errs = <<>> THEN <<>>
    ELSE InsertSorted(SortedByRelevance(SubSeq(errs, 1, Len(errs) - 1)), errs[Len(errs)])

\* ------------------------------------------------------------ input files
None == [t |-> "none"]
NaN == [t |-> "nan"]

\* cell texts whose enum message has TruncLen - 1, TruncLen and TruncLen + 1 characters
EnumMsgOverhead == Len(PyRepr(PStr(<<>>)) \o sNotOneOf \o PyRepr(PList(NodeEnum(sSex))))
BoundaryCells == {PStr(Pad(TruncLen - EnumMsgOverhead + d)) : d \in {0 - 1, 0, 1}}

\* the columns of a csv file with the cells read_csv can infer for each
Shapes ==
    { <<[name |-> sComponent, dom |-> {PStr(sPatient), PStr(sBiospecimen), NaN, PStr(Pad(TruncLen))}],
        [name |-> sSex, dom |-> {PStr(sFemale), PStr(sOther)}]>>,
      <<[name |-> sSex, dom |-> {PStr(sFemale), PStr(sFemalePadded)} \cup BoundaryCells]>>,
      <<[name |-> sPatientID, dom |-> {PInt(12), PFloat(7), PBool(TRUE), PStr(sP1), NaN}],
        [name |-> sSex, dom |-> {PStr(sFemale), NaN}],
        [name |-> sTags, dom |-> {PStr(sABC), PStr(sA)}]>>,
      <<[name |-> sComponent, dom |-> {PStr(sPatient)}],
        [name |-> sPatientID, dom |-> {PStr(sP1)}],
        [name |-> sTags, dom |-> {PStr(sABC), NaN}]>> }

ShapeRows(shape) ==
    {r \in [1..Len(shape) -> UNION {shape[k].dom : k \in 1..Len(shape)}] :
        /\ \A k \in 1..Len(shape) : r[k] \in shape[k].dom
        \* a row of empty cells only is no data row
        /\ \E k \in 1..Len(shape) : r[k] # NaN}

\* the dtype read_csv infers for a column: all int, all bool, float with
\* blanks, or object (str with blanks)
ColumnTyped(cells) ==
    \/ \A c \in cells : c.t = "int"
    \/ \A c \in cells : c.t = "bool"
    \/ \A c \in cells : c.t \in {"float", "nan"}
    \/ \A c \in cells : c.t \in {"str", "nan"}

ShapeTables(shape) ==
    {rows \in UNION {[1..n -> ShapeRows(shape)] : n \in 0..MaxRows} :
        \A k \in 1..Len(shape) : ColumnTyped({rows[j][k] : j \in 1..Len(rows)})}

\* a readable csv file, as pd.read_csv parses it
CsvFiles ==
    UNION {{[ok |-> TRUE, columns |-> [k \in 1..Len(shape) |-> shape[k].name], rows |-> rows] :
                rows \in ShapeTables(shape)} : shape \in Shapes}

\* a file that is no table
MalformedFile == [ok |-> FALSE, columns |-> <<>>, rows |-> <<>>]

ManifestFiles == CsvFiles \cup {MalformedFile}

RootNodes == {sPatient, sBiospecimen, sAssay}
SchemaArgs == {None, UserSchema}
DatasetIds == {"syn1"}
StorageFailures == {"SynapseHTTPError", "AccessCredentialsError"}

\* ------------------------------------------------------------------ state
VARIABLES
    pc,                 \* position in the running call
    caller,             \* the function called from outside: "top" (validateModelManifest), "submit" or "none"
    manifestPath,       \* validateModelManifest: parameter
    rootNode,           \* validateModelManifest: parameter
    jsonSchema,         \* validateModelManifest: parameter, compiled when None
    manifest,           \* validateModelManifest: the data frame
    annotations,        \* validateModelManifest: the records of the data frame
    i,                  \* validateModelManifest: index of the next record
    errors,             \* validateModelManifest: accumulated error list
    manifest_path,      \* submit_metadata_manifest: parameter
    dataset_id,         \* submit_metadata_manifest: parameter
    validate_component, \* submit_metadata_manifest: parameter
    val_errors,         \* submit_metadata_manifest: result of the validation
    result,             \* outcome of the finished call
    log                 \* collaborator calls made by the running call

vars == <<pc, caller, manifestPath, rootNode, jsonSchema, manifest, annotations, i, errors,
          manifest_path, dataset_id, validate_component, val_errors, result, log>>

validateVars == <<manifestPath, rootNode, jsonSchema, manifest, annotations, i, errors>>
submitVars == <<manifest_path, dataset_id, validate_component, val_errors>>

Init ==
    /\ pc = "idle"
    /\ caller = "none"
    /\ manifestPath = None
    /\ rootNode = None
    /\ jsonSchema = None
    /\ manifest = None
    /\ annotations = <<>>
    /\ i = 0
    /\ errors = <<>>
    /\ manifest_path = None
    /\ dataset_id = None
    /\ validate_component = None
    /\ val_errors = <<>>
    /\ result = [kind |-> "none"]
    /\ log = <<>>

\* an exception leaves the running call: neither function catches it
Raise(exc, payload) ==
    /\ pc' = "done"
    /\ result' = [kind |-> "raise", exc |-> exc, payload |-> payload]

\* ------------------------------------------------ validateModelManifest
ValidateCall(file, root, schemaArg) ==
    /\ pc = "idle"
    /\ pc' = "v_schema"
    /\ caller' = "top"
    /\ manifestPath' = file
    /\ rootNode' = root
    /\ jsonSchema' = schemaArg
    /\ log' = Append(log, [op |-> "validateModelManifest"])
    /\ UNCHANGED <<manifest, annotations, i, errors, submitVars, result>>

\* if not jsonSchema: jsonSchema = get_json_schema_requirements(...); errors = []
V_Schema ==
    /\ pc = "v_schema"
    /\ IF jsonSchema # None
       THEN /\ pc' = "v_load"
            /\ errors' = <<>>
            /\ UNCHANGED <<jsonSchema, result>>
       ELSE IF rootNode \in SchemaClasses
       THEN /\ pc' = "v_load"
            /\ jsonSchema' = get_json_schema_requirements(rootNode)
            /\ errors' = <<>>
            /\ UNCHANGED result
       ELSE /\ Raise("ValueError", rootNode)
            /\ UNCHANGED <<jsonSchema, errors>>
    /\ UNCHANGED <<caller, manifestPath, rootNode, manifest, annotations, i, submitVars, log>>

\* fillna(""): an empty cell becomes the empty str
fillna(cell) == IF cell = NaN THEN PStr(<<>>) ELSE cell

\* manifest = trim_commas_df(pd.read_csv(manifestPath)).fillna("")
V_Load ==
    /\ pc = "v_load"
    /\ IF manifestPath.ok
       THEN /\ pc' = "v_component"
            /\ manifest' = [columns |-> manifestPath.columns,
                            rows |-> [r \in 1..Len(manifestPath.rows) |->
                                        [k \in 1..Len(manifestPath.columns) |-> fillna(manifestPath.rows[r][k])]]]
            /\ UNCHANGED result
       ELSE /\ Raise("ParserError", None)
            /\ UNCHANGED manifest
    /\ UNCHANGED <<caller, manifestPath, rootNode, jsonSchema, annotations, i, errors, submitVars, log>>

\* manifest['Component']
ComponentSeries(df) ==
    [r \in 1..Len(df.rows) |-> df.rows[r][IndexOf(df.columns, sComponent)]]

\* Series.unique(): the distinct values in order of first appearance
RECURSIVE unique(_)
unique(series) ==
    IF series = <<>> THEN <<>>
    ELSE LET init == unique(SubSeq(series, 1, Len(series) - 1))
             last == series[Len(series)]
         IN  IF last \in Range(init) THEN init ELSE Append(init, last)

\* mutant: the rows where 'Component' is rootNode
MismatchedIdxs_Equal(df, root) ==
    LET series == ComponentSeries(df)
        F[k \in 0..Len(series)] ==
            IF k = 0 THEN <<>>
            ELSE IF series[k] = PStr(root) THEN Append(F[k - 1], k - 1) ELSE F[k - 1]
    IN  F[Len(series)]

\* manifest.index[manifest['Component'] != rootNode].tolist(), 0-based
MismatchedIdxs(df, root) ==
    LET series == ComponentSeries(df)
        F[k \in 0..Len(series)] ==
            IF k = 0 THEN <<>>
            ELSE IF series[k] # PStr(root) THEN Append(F[k - 1], k - 1) ELSE F[k - 1]
    IN  F[Len(series)]

\* [index + 2, 'Component', f"Component value provided is: ...", (component, rootNode)]
ComponentError(index, component, root) ==
    PList(<<PInt(index + RowOffset),
            PStr(sComponent),
            PStr(sCompMsg1 \o PyStr(component) \o sCompMsg2 \o root \o sQuote),
            PTuple(<<component, PStr(root)>>)>>)

\* the errors of the mismatched-component branch
ComponentErrors(df, root) ==
    LET row_idxs == MismatchedIdxs(df, root)
    IN  [k \in 1..Len(row_idxs) |->
            ComponentError(row_idxs[k], ComponentSeries(df)[row_idxs[k] + 1], root)]

\* return errors
ValidateReturn(errs) ==
    /\ log' = Append(log, [op |-> "validateModelManifest_return", value |-> errs])
    /\ IF caller = "top"
       THEN /\ pc' = "done"
            /\ result' = [kind |-> "return", value |-> PList(errs)]
            /\ UNCHANGED val_errors
       ELSE /\ pc' = "s_check_errors"
            /\ val_errors' = errs
            /\ UNCHANGED result

\* the 'Component' column handler
V_Component ==
    /\ pc = "v_component"
    /\ IF sComponent \notin Range(manifest.columns)
       THEN /\ pc' = "v_normalize"
            /\ UNCHANGED <<errors, val_errors, result, log>>
       ELSE IF Len(manifest.rows) = 0
       THEN \* unique()[0] of an empty column
            /\ Raise("IndexError", None)
            /\ UNCHANGED <<errors, val_errors, log>>
       ELSE IF \/ Len(unique(ComponentSeries(manifest))) > 1
               \/ unique(ComponentSeries(manifest))[1] # PStr(rootNode)
       THEN /\ errors' = errors \o ComponentErrors(manifest, rootNode)
            /\ ValidateReturn(errors')
       ELSE /\ pc' = "v_normalize"
            /\ UNCHANGED <<errors, val_errors, result, log>>
    /\ UNCHANGED <<caller, manifestPath, rootNode, jsonSchema, manifest, annotations, i,
                   manifest_path, dataset_id, validate_component>>

\* manifest.applymap(lambda x: x.strip() if isinstance(x, str) else x): a new frame
applymap_strip(df) ==
    [columns |-> df.columns,
     rows |-> [r \in 1..Len(df.rows) |->
                [k \in 1..Len(df.columns) |->
                    IF df.rows[r][k].t = "str" THEN PStr(Strip(df.rows[r][k].s)) ELSE df.rows[r][k]]]]

\* mutant: the column keeps its dtype
astype_str_Unchanged(cell) == cell

\* manifest[col].astype(str)
astype_str(cell) == PStr(PyStr(cell))

\* mutant: the tokens keep their blanks
SplitList_NoStrip(cell) ==
    LET tokens == Split(PyStr(cell), ",")
    IN  PList([k \in 1..Len(tokens) |-> PStr(tokens[k])])

\* [s.strip() for s in str(x).split(",")]
SplitList(cell) ==
    LET tokens == Split(PyStr(cell), ",")
    IN  PList([k \in 1..Len(tokens) |-> PStr(Strip(tokens[k]))])

\* one column of the normalisation loop
NormalizeCell(col, cell) ==
    IF "list" \in get_node_validation_rules(col)
    THEN SplitList(astype_str(cell))
    ELSE astype_str(cell)

\* the loop over manifest.columns; the frame applymap returns is not assigned
Normalize(df) ==
    LET stripped == applymap_strip(df)
    IN  [columns |-> df.columns,
         rows |-> [r \in 1..Len(df.rows) |->
                    [k \in 1..Len(df.columns) |-> NormalizeCell(df.columns[k], df.rows[r][k])]]]

\* json.loads(json.dumps(v)) of a cell
RECURSIVE JsonValue(_)
JsonValue(v) ==
    IF v.t \in {"list", "tuple"}
    THEN PList([k \in 1..Len(v.xs) |-> JsonValue(v.xs[k])])
    ELSE v

\* json.loads(manifest.to_json(orient='records'))
ToRecords(df) ==
    [r \in 1..Len(df.rows) |->
        [t |-> "dict", keys |-> df.columns,
         vals |-> [k \in 1..Len(df.columns) |-> JsonValue(df.rows[r][k])]]]

V_Normalize ==
    /\ pc = "v_normalize"
    /\ pc' = "v_rows"
    /\ manifest' = Normalize(manifest)
    /\ annotations' = ToRecords(manifest')
    /\ i' = 0
    /\ UNCHANGED <<caller, manifestPath, rootNode, jsonSchema, errors, submitVars, result, log>>

\* mutant: the column is the first element of the path
RowError_FirstOfPath(idx, error) ==
    PList(<<PInt(idx + RowOffset),
            IF Len(error.path) > 0 THEN error.path[1] ELSE PStr(sWrongSchema),
            PStr(Slice0(error.message, TruncLen)),
            IF Len(error.path) > 0 THEN error.instance ELSE PStr(sWrongSchema)>>)

\* [errorRow, errorCol, errorMsg, errorVal] of one validator error of record idx
RowError(idx, error) ==
    PList(<<PInt(idx + RowOffset),
            IF Len(error.path) > 0 THEN error.path[Len(error.path)] ELSE PStr(sWrongSchema),
            PStr(Slice0(error.message, TruncLen)),
            IF Len(error.path) > 0 THEN error.instance ELSE PStr(sWrongSchema)>>)

\* mutant: only the most relevant error of a record is kept
RowErrors_FirstOnly(schema, idx, annotation) ==
    LET sorted == SortedByRelevance(iter_errors(schema, annotation))
    IN  IF sorted = <<>> THEN <<>> ELSE <<RowError(idx, sorted[1])>>

\* mutant: only the first record is validated
RowErrors_FirstRecord(schema, idx, annotation) ==
    LET sorted == SortedByRelevance(iter_errors(schema, annotation))
    IN  IF idx > 0 THEN <<>> ELSE [k \in 1..Len(sorted) |-> RowError(idx, sorted[k])]

\* the errors appended for record idx
RowErrors(schema, idx, annotation) ==
    LET sorted == SortedByRelevance(iter_errors(schema, annotation))
    IN  [k \in 1..Len(sorted) |-> RowError(idx, sorted[k])]

\* one iteration of: for i, annotation in enumerate(annotations)
V_Row ==
    /\ pc = "v_rows"
    /\ i < Len(annotations)
    /\ errors' = errors \o RowErrors(jsonSchema, i, annotations[i + 1])
    /\ i' = i + 1
    /\ UNCHANGED <<pc, caller, manifestPath, rootNode, jsonSchema, manifest, annotations,
                   submitVars, result, log>>

\* the loop is exhausted: return errors
V_Return ==
    /\ pc = "v_rows"
    /\ i = Len(annotations)
    /\ ValidateReturn(errors)
    /\ UNCHANGED <<caller, manifestPath, rootNode, jsonSchema, manifest, annotations, i, errors,
                   manifest_path, dataset_id, validate_component>>

\* --------------------------------------------- submit_metadata_manifest
\* syn_store = SynapseStorage(); if validate_component is not None
SubmitCall(file, ds, component) ==
    /\ pc = "idle"
    /\ manifest_path' = file
    /\ dataset_id' = ds
    /\ validate_component' = component
    /\ pc' = IF component # None THEN "s_check_class" ELSE "s_associate_unvalidated"
    /\ caller' = "submit"
    /\ UNCHANGED <<validateVars, val_errors, result, log>>

\* what self.sg.se.is_class_in_schema can do for a component
IsClassOutcomes(component) ==
    IF component.s \in SchemaClasses THEN {"True"} ELSE {"KeyError", "False"}

\* try: is_class_in_schema(validate_component) except: raise ValueError(...)
\* then val_errors = self.validateModelManifest(manifest_path, validate_component)
S_CheckClass ==
    /\ pc = "s_check_class"
    /\ \E outcome \in IsClassOutcomes(validate_component) :
         /\ log' = Append(log, [op |-> "is_class_in_schema", outcome |-> outcome])
                    \o (IF outcome = "KeyError" THEN <<>> ELSE <<[op |-> "validateModelManifest"]>>)
         /\ IF outcome = "KeyError"
            THEN /\ Raise("ValueError", sNotFound1 \o PyStr(validate_component) \o sNotFound2)
                 /\ UNCHANGED <<manifestPath, rootNode, jsonSchema>>
            ELSE \* the value returned is not looked at
                 /\ pc' = "v_schema"
                 /\ manifestPath' = manifest_path
                 /\ rootNode' = validate_component.s
                 /\ jsonSchema' = None
                 /\ UNCHANGED result
    /\ UNCHANGED <<caller, manifest, annotations, i, errors, submitVars>>

\* mutant: the error list is not looked at before the association
S_CheckErrors_NoCheck ==
    /\ pc = "s_check_errors"
    /\ pc' = "s_associate_validated"
    /\ UNCHANGED <<result, caller, validateVars, submitVars, log>>

\* mutant: the exception carries the first error only
S_CheckErrors_FirstOnly ==
    /\ pc = "s_check_errors"
    /\ IF val_errors = <<>>
       THEN /\ pc' = "s_associate_validated"
            /\ UNCHANGED result
       ELSE Raise("ValidationError", sValFailed \o PyStr(PList(<<val_errors[1]>>)))
    /\ UNCHANGED <<caller, validateVars, submitVars, log>>

\* if not val_errors: ... else: raise ValidationError(f"... {val_errors}")
S_CheckErrors ==
    /\ pc = "s_check_errors"
    /\ IF val_errors = <<>>
       THEN /\ pc' = "s_associate_validated"
            /\ UNCHANGED result
       ELSE Raise("ValidationError", sValFailed \o PyStr(PList(val_errors)))
    /\ UNCHANGED <<caller, validateVars, submitVars, log>>

\* mutant: a failure of the association is swallowed
Associate_Swallow ==
    \E outcome \in {"ok"} \cup StorageFailures :
      /\ log' = Append(log, [op |-> "associateMetadataWithFiles", outcome |-> outcome,
                             metadataManifestPath |-> manifest_path, datasetId |-> dataset_id])
      /\ pc' = "done"
      /\ result' = [kind |-> "return", value |-> PBool(TRUE)]

\* syn_store.associateMetadataWithFiles(metadataManifestPath=..., datasetId=...); return True
Associate ==
    \E outcome \in {"ok"} \cup StorageFailures :
      /\ log' = Append(log, [op |-> "associateMetadataWithFiles", outcome |-> outcome,
                             metadataManifestPath |-> manifest_path, datasetId |-> dataset_id])
      /\ IF outcome = "ok"
         THEN /\ pc' = "done"
              /\ result' = [kind |-> "return", value |-> PBool(TRUE)]
         ELSE Raise(outcome, None)

\* the association after a validation without errors
S_AssociateValidated ==
    /\ pc = "s_associate_validated"
    /\ Associate
    /\ UNCHANGED <<caller, validateVars, submitVars>>

\* the association when no validation was asked for
S_AssociateUnvalidated ==
    /\ pc = "s_associate_unvalidated"
    /\ Associate
    /\ UNCHANGED <<caller, validateVars, submitVars>>

\* ------------------------------------------------- getOrderedModelNodes
\* typed edges of the loaded schema graph: <<source, relationship, target>>
SchemaEdges ==
    { <<sPatient, "requiresDependency", sPatientID>>,
      <<sPatient, "requiresDependency", sSex>>,
      <<sPatient, "requiresDependency", sTags>>,
      <<sPatientID, "requiresDependency", sSex>>,
      <<sBiospecimen, "requiresDependency", sSex>>,
      <<sBiospecimen, "requiresComponent", sPatient>> }

SchemaNodes == {e[1] : e \in SchemaEdges} \cup {e[3] : e \in SchemaEdges}

RelationshipTypes == {"requiresDependency", "requiresComponent"}

\* the nodes reachable from root over edges of type rel, root included
RECURSIVE ReachFrom(_, _)
ReachFrom(seen, rel) ==
    LET more == seen \cup {e[3] : e \in {d \in SchemaEdges : d[2] = rel /\ d[1] \in seen}}
    IN  IF more = seen THEN seen ELSE ReachFrom(more, rel)

\* the lists get_descendants_by_edge_type(root, rel, connected=True,
\* ordered=True) can return: the topological orders of the reachable subgraph
TopologicalOrders(root, rel) ==
    LET nodes == ReachFrom({root}, rel)
        n == Cardinality(nodes)
    IN  {s \in [1..n -> nodes] :
            /\ \A a, b \in 1..n : a # b => s[a] # s[b]
            /\ \A e \in SchemaEdges :
                  (e[2] = rel /\ e[1] \in nodes) =>
                     \E a, b \in 1..n : a < b /\ s[a] = e[1] /\ s[b] = e[3]}

\* mutant: the list is returned as the topological sort gave it
reverse_Forgotten(xs) == xs

\* ordered_nodes.reverse()
reverse(xs) == [k \in 1..Len(xs) |-> xs[Len(xs) + 1 - k]]

\* getOrderedModelNodes(rootNode, relationshipType)
GetOrderedModelNodes(root, rel) ==
    /\ pc = "idle"
    /\ caller' = "getOrderedModelNodes"
    /\ IF root \notin SchemaNodes
       THEN /\ Raise("ValueError", root)
            /\ log' = Append(log, [op |-> "get_descendants_by_edge_type", outcome |-> "ValueError"])
       ELSE \E ordered_nodes \in TopologicalOrders(root, rel) :
              /\ log' = Append(log, [op |-> "get_descendants_by_edge_type", outcome |-> "ok",
                                     value |-> [k \in 1..Len(ordered_nodes) |-> PStr(ordered_nodes[k])]])
              /\ pc' = "done"
              /\ result' = [kind |-> "return",
                            value |-> PList(reverse([k \in 1..Len(ordered_nodes) |-> PStr(ordered_nodes[k])]))]
    /\ UNCHANGED <<validateVars, submitVars>>

\* ------------------------------------------------------------ curie_utils
\* the texts the inputs of the curie functions are made of
Pieces == {sHttp, <<":">>, <<"/">>, sA, sRdf}

\* texts of at most MaxPieces pieces
Items == UNION {{Flatten(ps) : ps \in [1..n -> Pieces]} : n \in 0..MaxPieces}

\* sub in s
RECURSIVE str_contains(_, _)
str_contains(s, sub) ==
    IF Len(s) < Len(sub) THEN FALSE
    ELSE IF SubSeq(s, 1, Len(sub)) = sub THEN TRUE
    ELSE str_contains(Tail(s), sub)

\* s.split(sep) for a separator of one or more characters
RECURSIVE str_split_from(_, _, _)
str_split_from(s, sep, acc) ==
    IF s = <<>> THEN <<acc>>
    ELSE IF Len(s) >= Len(sep) /\ SubSeq(s, 1, Len(sep)) = sep
    THEN <<acc>> \o str_split_from(SubSeq(s, Len(sep) + 1, Len(s)), sep, <<>>)
    ELSE str_split_from(Tail(s), sep, Append(acc, Head(s)))

str_split(s, sep) == str_split_from(s, sep, <<>>)

\* xs[-1]
Last(xs) == xs[Len(xs)]

\* mutant: the "http" test is left out
extract_name_NoHttpTest(item) ==
    IF Len(str_split(item, <<":">>)) = 2
    THEN [kind |-> "return", value |-> PStr(Last(str_split(item, <<":">>)))]
    ELSE IF Len(str_split(Last(str_split(item, <<"/", "/">>)), <<"/">>)) > 1
    THEN [kind |-> "return", value |-> PStr(Last(str_split(Last(str_split(item, <<"/", "/">>)), <<"/">>)))]
    ELSE [kind |-> "raise", exc |-> "ValueError", payload |-> sExtractError]

\* extract_name_from_uri_or_curie(item): what the call returns or raises
extract_name_from_uri_or_curie(item) ==
    IF ~str_contains(item, sHttp) /\ Len(str_split(item, <<":">>)) = 2
    THEN [kind |-> "return", value |-> PStr(Last(str_split(item, <<":">>)))]
    ELSE IF Len(str_split(Last(str_split(item, <<"/", "/">>)), <<"/">>)) > 1
    THEN [kind |-> "return", value |-> PStr(Last(str_split(Last(str_split(item, <<"/", "/">>)), <<"/">>)))]
    ELSE [kind |-> "raise", exc |-> "ValueError", payload |-> sExtractError]

ExtractName(item) ==
    /\ pc = "idle"
    /\ caller' = "extract_name_from_uri_or_curie"
    /\ pc' = "done"
    /\ log' = Append(log, [op |-> "extract_name_from_uri_or_curie", item |-> item])
    /\ result' = extract_name_from_uri_or_curie(item)
    /\ UNCHANGED <<validateVars, submitVars>>

\* prefixes_not_expand = ["rdf", "rdfs", "xsd"]
prefixes_not_expand == {sRdf, sRdfs, sXsd}

\* jsonld contexts: prefix to uri
Contexts ==
    { [p \in {} |-> <<>>],
      [p \in {sA} |-> sBaseUri],
      [p \in {sA, sRdf} |-> IF p = sA THEN sBaseUri ELSE sRdfUri] }

\* mutant: every prefix of the context is expanded
expand_curie_NoExclusion(curie, context_info) ==
    IF Len(str_split(curie, <<":">>)) = 2
    THEN LET prefix == str_split(curie, <<":">>)[1]
             value == str_split(curie, <<":">>)[2]
         IN  IF prefix \in DOMAIN context_info
             THEN context_info[prefix] \o value
             ELSE curie
    ELSE curie

\* expand_curie_to_uri(curie, context_info)
expand_curie_to_uri(curie, context_info) ==
    IF Len(str_split(curie, <<":">>)) = 2
    THEN LET prefix == str_split(curie, <<":">>)[1]
             value == str_split(curie, <<":">>)[2]
         IN  IF prefix \in DOMAIN context_info /\ prefix \notin prefixes_not_expand
             THEN context_info[prefix] \o value
             ELSE curie
    ELSE curie

ExpandCurie(curie, context_info) ==
    /\ pc = "idle"
    /\ caller' = "expand_curie_to_uri"
    /\ pc' = "done"
    /\ log' = Append(log, [op |-> "expand_curie_to_uri", curie |-> curie, context_info |-> context_info])
    /\ result' = [kind |-> "return", value |-> PStr(expand_curie_to_uri(curie, context_info))]
    /\ UNCHANGED <<validateVars, submitVars>>

\* the call is over; the object keeps nothing of it
Finish ==
    /\ pc = "done"
    /\ pc' = "idle"
    /\ caller' = "none"
    /\ manifestPath' = None
    /\ rootNode' = None
    /\ jsonSchema' = None
    /\ manifest' = None
    /\ annotations' = <<>>
    /\ i' = 0
    /\ errors' = <<>>
    /\ manifest_path' = None
    /\ dataset_id' = None
    /\ validate_component' = None
    /\ val_errors' = <<>>
    /\ result' = [kind |-> "none"]
    /\ log' = <<>>

ValidateComponents == {None} \cup {PStr(r) : r \in RootNodes}

Next ==
    \/ \E file \in ManifestFiles, root \in RootNodes, schemaArg \in SchemaArgs :
          ValidateCall(file, root, schemaArg)
    \/ V_Schema
    \/ V_Load
    \/ V_Component
    \/ V_Normalize
    \/ V_Row
    \/ V_Return
    \/ \E file \in ManifestFiles, ds \in DatasetIds, component \in ValidateComponents :
          SubmitCall(file, ds, component)
    \/ S_CheckClass
    \/ S_CheckErrors
    \/ S_AssociateValidated
    \/ S_AssociateUnvalidated
    \/ \E root \in SchemaNodes \cup {sAssay}, rel \in RelationshipTypes : GetOrderedModelNodes(root, rel)
    \/ pc = "idle" /\ \E item \in Items : ExtractName(item)
    \/ pc = "idle" /\ \E curie \in Items, context_info \in Contexts : ExpandCurie(curie, context_info)
    \/ Finish

Spec == Init /\ [][Next]_vars

\* ================================================================ claims
\* positions of the calls of the storage collaborator's associate operation
AssociateCalls == {k \in 1..Len(log) : log[k].op = "associateMetadataWithFiles"}

\* positions where validateModelManifest was entered / returned a list
ValidateCalls == {k \in 1..Len(log) : log[k].op = "validateModelManifest"}
ValidateReturns == {k \in 1..Len(log) : log[k].op = "validateModelManifest_return"}

InSubmit == caller = "submit" /\ pc # "idle"

\* C1: within one submit_metadata_manifest call, associateMetadataWithFiles is
\* invoked at most once, and only (a) when validate_component is None and no
\* validation was started, or (b) after validateModelManifest has returned an
\* empty error list; it is never invoked after a non-empty error list.
C1_AssociateOnlyAfterValidation ==
    InSubmit =>
        /\ Cardinality(AssociateCalls) <= 1
        /\ \A k \in AssociateCalls :
              \/ validate_component = None /\ ValidateCalls = {}
              \/ /\ validate_component # None
                 /\ \E c \in ValidateCalls, r \in ValidateReturns :
                        c < r /\ r < k /\ log[r].value = <<>>
        /\ (\E r \in ValidateReturns : log[r].value # <<>>) => AssociateCalls = {}

\* a submit call that validated first and then associated
C1_Witness ==
    /\ InSubmit
    /\ validate_component # None
    /\ AssociateCalls # {}
    /\ Len(annotations) > 0

\* C2: when validate_component is a class of the schema and
\* validateModelManifest returned a non-empty error list, the finished call
\* has raised ValidationError whose message carries the whole list, every
\* error in order, and has not returned True.
C2_ValidationFailureRaises ==
    (/\ InSubmit
     /\ pc = "done"
     /\ validate_component # None
     /\ validate_component.s \in SchemaClasses
     /\ \E r \in ValidateReturns : log[r].value # <<>>)
    => /\ result.kind = "raise"
       /\ result.exc = "ValidationError"
       /\ result.payload =
             sValFailed \o sLBracket
                \o Join(sCommaSpace, [k \in 1..Len(errors) |-> PyRepr(errors[k])])
                \o sRBracket

\* a submit call that raised ValidationError for a list of two or more errors
C2_Witness ==
    /\ InSubmit
    /\ pc = "done"
    /\ result.kind = "raise"
    /\ result.exc = "ValidationError"
    /\ Len(errors) >= 2

\* C3: when validate_component is not a class of the schema, however
\* is_class_in_schema reports it, the call raises ValueError naming the
\* component and neither validateModelManifest nor the association is called.
C3_UnknownComponentRejected ==
    (/\ InSubmit
     /\ validate_component # None
     /\ validate_component.s \notin SchemaClasses
     /\ pc # "s_check_class")
    => /\ pc = "done"
       /\ result.kind = "raise"
       /\ result.exc = "ValueError"
       /\ result.payload = sNotFound1 \o validate_component.s \o sNotFound2
       /\ ValidateCalls = {}
       /\ AssociateCalls = {}

IsInfix(needle, hay) ==
    \E p \in 0..(Len(hay) - Len(needle)) : SubSeq(hay, p + 1, p + Len(needle)) = needle

\* the data frame has been loaded and the 'Component' handler is over
PastComponentCheck == manifest # None /\ pc # "v_component"

HasComponentColumn == sComponent \in Range(manifest.columns)

\* 1-based positions of the rows whose Component cell is not rootNode
DisagreeingRows ==
    {r \in 1..Len(manifest.rows) : manifest.rows[r][IndexOf(manifest.columns, sComponent)] # PStr(rootNode)}

\* fields of an error [row, column, message, value]
ErrRow(e) == e.xs[1].n
ErrCol(e) == e.xs[2]
ErrMsg(e) == e.xs[3].s
ErrVal(e) == e.xs[4]

C6_EmptyComponentPasses ==
    (/\ PastComponentCheck
     /\ HasComponentColumn
     /\ \E r \in 1..Len(manifest.rows) :
            manifest.rows[r][IndexOf(manifest.columns, sComponent)] = PStr(rootNode)
     /\ \A r \in 1..Len(manifest.rows) :
            manifest.rows[r][IndexOf(manifest.columns, sComponent)] \in {PStr(rootNode), PStr(<<>>)})
    => /\ \A k \in 1..Len(errors) : ErrCol(errors[k]) # PStr(sComponent)
       /\ pc \in {"v_normalize", "v_rows"} \/ Len(annotations) = Len(manifest.rows)

\* the tuple the claim describes for validator error e of the record with
\* 0-based index idx
ExpectedTuple(idx, e) ==
    IF e.path = <<>>
    THEN PList(<<PInt(idx + 2), PStr(sWrongSchema), PStr(Slice0(e.message, TruncLen)), PStr(sWrongSchema)>>)
    ELSE PList(<<PInt(idx + 2), e.path[Len(e.path)], PStr(Slice0(e.message, TruncLen)), e.instance>>)

\* C7: every error the validator produces for the record with 0-based index
\* idx is reported as (idx + 2, last path element, message, instance), or
\* with 'Wrong schema' as both column and value when the path is empty, and
\* nothing else is reported.
C7_RowErrorTuples ==
    /\ \A r \in 1..i :
          \A k \in 1..Len(iter_errors(jsonSchema, annotations[r])) :
             \E j \in 1..Len(errors) :
                errors[j] = ExpectedTuple(r - 1, iter_errors(jsonSchema, annotations[r])[k])
    /\ annotations # <<>> =>
          \A j \in 1..Len(errors) :
             \E r \in 1..i :
                \E k \in 1..Len(iter_errors(jsonSchema, annotations[r])) :
                   errors[j] = ExpectedTuple(r - 1, iter_errors(jsonSchema, annotations[r])[k])

\* a record past the first produced a field error below the column level
\* and a schema-level error
C7_Witness ==
    /\ i >= 2
    /\ \E j \in 1..Len(errors) : ErrRow(errors[j]) = 3 /\ ErrCol(errors[j]).t = "int"
    /\ \E j \in 1..Len(errors) :
          ErrRow(errors[j]) = 3 /\ ErrCol(errors[j]) = PStr(sWrongSchema) /\ ErrVal(errors[j]) = PStr(sWrongSchema)

\* C8: every error of the list carries a message of at most 500 characters,
\* on the schema path and on the Component path alike; a validator message
\* of more than 500 characters is reported as its first 500 characters and
\* a shorter one as it is.
C8_MessagesAtMost500 ==
    /\ \A k \in 1..Len(errors) : Len(ErrMsg(errors[k])) <= 500
    /\ \A r \in 1..i :
          \A k \in 1..Len(iter_errors(jsonSchema, annotations[r])) :
             LET message == iter_errors(jsonSchema, annotations[r])[k].message
             IN  \E j \in 1..Len(errors) :
                    /\ ErrRow(errors[j]) = (r - 1) + 2
                    /\ ErrMsg(errors[j]) = IF Len(message) > 500 THEN SubSeq(message, 1, 500) ELSE message

\* the relevance key of a validator error: deeper paths first
RelevanceKey(e) == 0 - Len(e.path)

\* errs in the validator's relevance order, equal keys in the order produced
InRelevanceOrder(errs) ==
    LET n == Len(errs)
        p == CHOOSE q \in [1..n -> 1..n] :
                /\ \A a, b \in 1..n : a # b => q[a] # q[b]
                /\ \A a, b \in 1..n :
                      a < b => \/ RelevanceKey(errs[q[a]]) < RelevanceKey(errs[q[b]])
                               \/ RelevanceKey(errs[q[a]]) = RelevanceKey(errs[q[b]]) /\ q[a] < q[b]
    IN  [k \in 1..n |-> errs[p[k]]]

\* what the list holds once the first n records are validated
RECURSIVE ExpectedErrors(_)
ExpectedErrors(n) ==
    IF n = 0 THEN <<>>
    ELSE ExpectedErrors(n - 1)
            \o [k \in 1..Len(iter_errors(jsonSchema, annotations[n])) |->
                   ExpectedTuple(n - 1, InRelevanceOrder(iter_errors(jsonSchema, annotations[n]))[k])]

\* C9: when the Component check passes, the error list is the concatenation,
\* over the records in ascending index, of all the errors the validator
\* produces for the record, each record's errors in relevance order; row
\* numbers never decrease along the list, and a record that violates the
\* schema has at least one error in it.
C9_CompleteAndOrdered ==
    (pc = "v_rows" \/ annotations # <<>>)
    => /\ errors = ExpectedErrors(i)
       /\ \A a, b \in 1..Len(errors) : a < b => ErrRow(errors[a]) <= ErrRow(errors[b])
       /\ \A r \in 1..i :
             iter_errors(jsonSchema, annotations[r]) # <<>> =>
                \E j \in 1..Len(errors) : ErrRow(errors[j]) = (r - 1) + 2
       /\ (\E r \in ValidateReturns : TRUE) =>
             i = Len(annotations) /\ \E r \in ValidateReturns : log[r].value = errors

\* the returned list holds two errors of one record, which the relevance
\* order swapped, after an error of an earlier record
C9_Witness ==
    /\ ValidateReturns # {}
    /\ Len(annotations) >= 2
    /\ \E a, b, c \in 1..Len(errors) :
          /\ a < b /\ b < c
          /\ ErrRow(errors[a]) = 2
          /\ ErrRow(errors[b]) = 3 /\ ErrCol(errors[b]).t = "int"
          /\ ErrRow(errors[c]) = 3 /\ ErrCol(errors[c]) = PStr(sSex)

\* instance satisfies the subschema sub
RECURSIVE Satisfies(_, _)
Satisfies(instance, sub) ==
    CASE sub.kind = "any" -> TRUE
      [] sub.kind = "string" -> instance.t = "str"
      [] sub.kind = "enum" -> \E k \in 1..Len(sub.enum) : sub.enum[k] = instance
      [] sub.kind = "array" ->
            /\ instance.t = "list"
            /\ \A k \in 1..Len(instance.xs) : Satisfies(instance.xs[k], sub.items)

\* the record sets every required property and every property it sets
\* satisfies its constraint
RecordValid(schema, record) ==
    /\ \A k \in 1..Len(schema.required) : schema.required[k] \in Range(record.keys)
    /\ \A k \in 1..Len(schema.properties) :
          schema.properties[k].name \in Range(record.keys) =>
             Satisfies(record.vals[IndexOf(record.keys, schema.properties[k].name)],
                       schema.properties[k].sub)

C11_NoRaiseForOrdinaryManifest ==
    (/\ pc = "done"
     /\ caller = "top"
     /\ manifestPath.ok
     /\ rootNode \in SchemaClasses)
    => /\ result.kind = "return"
       /\ result.value.t = "list"

\* positions of the ',' characters of s
CommaPositions(s) == {p \in 1..Len(s) : s[p] = ","}

\* the k-th piece of s between consecutive commas, k = 1 for the piece
\* before the first comma
Piece(s, k) ==
    LET before == {p \in CommaPositions(s) : Cardinality({q \in CommaPositions(s) : q <= p}) = k - 1}
        after == {p \in CommaPositions(s) : Cardinality({q \in CommaPositions(s) : q <= p}) = k}
        from == IF before = {} THEN 1 ELSE (CHOOSE p \in before : TRUE) + 1
        to == IF after = {} THEN Len(s) ELSE (CHOOSE p \in after : TRUE) - 1
    IN  SubSeq(s, from, to)

\* token is piece without the blanks at its two ends
IsTrimmed(token, piece) ==
    /\ token = <<>> \/ (token[1] # " " /\ token[Len(token)] # " ")
    /\ \E a, b \in 0..Len(piece) :
          /\ a + Len(token) + b = Len(piece)
          /\ \A p \in 1..Len(piece) :
                piece[p] = IF p <= a \/ p > a + Len(token) THEN " " ELSE token[p - a]

\* the frame has been normalised
Normalized == pc = "v_rows" \/ annotations # <<>>

\* C12: after normalisation a cell of a column with the 'list' rule is the
\* sequence of the pieces of the cell text between its commas, in order, each
\* without the blanks at its ends ('a, b ,c' gives ['a', 'b', 'c']); a cell of
\* any other column is a scalar str.
C12_ListColumnsSplit ==
    Normalized =>
        \A r \in 1..Len(manifest.rows) :
           \A k \in 1..Len(manifest.columns) :
              LET cell == manifest.rows[r][k]
                  raw == manifestPath.rows[r][k]
                  text == IF raw.t = "nan" THEN <<>> ELSE raw.s
              IN  IF "list" \in get_node_validation_rules(manifest.columns[k])
                  THEN /\ cell.t = "list"
                       /\ Len(cell.xs) = Cardinality(CommaPositions(text)) + 1
                       /\ \A n \in 1..Len(cell.xs) :
                             cell.xs[n].t = "str" /\ IsTrimmed(cell.xs[n].s, Piece(text, n))
                       /\ text = sABC => cell.xs = <<PStr(sA), PStr(sB), PStr(sC)>>
                  ELSE cell.t = "str"

\* the cell 'a, b ,c' of a list column has been normalised, next to a
\* scalar column
C12_Witness ==
    /\ Normalized
    /\ \E r \in 1..Len(manifest.rows) :
          \E k \in 1..Len(manifest.columns) :
             /\ manifestPath.rows[r][k] = PStr(sABC)
             /\ manifest.columns[k] = sTags
             /\ manifest.rows[r][k].t = "list"
             /\ Len(manifest.rows[r][k].xs) = 3
             /\ \E j \in 1..Len(manifest.columns) : manifest.rows[r][j].t = "str"

\* the str values of a cell handed to the validator: the cell itself or the
\* tokens of a list cell
StrsOf(cell) == IF cell.t = "list" THEN Range(cell.xs) ELSE {cell}

\* C16: no str cell of a record handed to the schema validator starts or
\* ends with a blank.
C16_CellsTrimmed ==
    \A r \in 1..Len(annotations) :
       \A k \in 1..Len(annotations[r].vals) :
          \A cell \in StrsOf(annotations[r].vals[k]) :
             cell.s = <<>> \/ (cell.s[1] # " " /\ cell.s[Len(cell.s)] # " ")

\* the text the claim expects for a cell of the csv file
ExpectedText(raw) ==
    CASE raw.t = "nan" -> <<>>
      [] raw.t = "str" -> raw.s
      [] raw.t = "int" -> IntToStr(raw.n)
      [] raw.t = "float" -> IntToStr(raw.n) \o <<".", "0">>
      [] raw.t = "bool" -> IF raw.b THEN <<"T", "r", "u", "e">> ELSE <<"F", "a", "l", "s", "e">>

\* C17: every cell of a record handed to the schema validator is a str, the
\* text of the number or boolean read from the file, the empty str for an
\* empty cell, or, in a column with the 'list' rule, a sequence of str.
C17_CellsAreStrings ==
    \A r \in 1..Len(annotations) :
       \A k \in 1..Len(annotations[r].vals) :
          LET cell == annotations[r].vals[k]
          IN  IF "list" \in get_node_validation_rules(annotations[r].keys[k])
              THEN cell.t = "list" /\ \A n \in 1..Len(cell.xs) : cell.xs[n].t = "str"
              ELSE cell = PStr(ExpectedText(manifestPath.rows[r][k]))

\* records made of a number, a boolean or an empty cell were handed to the
\* validator together with a list cell
C17_Witness ==
    /\ Len(annotations) >= 2
    /\ \E r \in 1..Len(annotations) :
          \E k \in 1..Len(annotations[r].vals) : manifestPath.rows[r][k].t = "int"
    /\ \E r \in 1..Len(annotations) :
          \E k, j \in 1..Len(annotations[r].vals) :
             manifestPath.rows[r][k].t = "nan" /\ annotations[r].vals[j].t = "list"
    /\ i = Len(annotations)

\* number of occurrences of x in the sequence xs
Count(xs, x) == Cardinality({p \in 1..Len(xs) : xs[p] = x})

\* C13: the list getOrderedModelNodes returns has the elements of the list
\* get_descendants_by_edge_type returned, each as often, and u is before v
\* in it exactly when v was before u in the topological sort.
C13_ReversedTopologicalOrder ==
    (caller = "getOrderedModelNodes" /\ pc = "done" /\ result.kind = "return")
    => LET sorted == log[1].value
           out == result.value.xs
       IN  /\ Len(out) = Len(sorted)
           /\ \A x \in Range(sorted) \cup Range(out) : Count(out, x) = Count(sorted, x)
           /\ \A p, q \in 1..Len(out) :
                 \A a, b \in 1..Len(sorted) :
                    (sorted[a] = out[p] /\ sorted[b] = out[q]) => (p < q <=> b < a)

\* a topological sort of three or more nodes was returned
C13_Witness ==
    /\ caller = "getOrderedModelNodes"
    /\ pc = "done"
    /\ result.kind = "return"
    /\ Len(result.value.xs) >= 3
    /\ result.value.xs[1] # log[1].value[1]

\* positions of the character c in s
Positions(s, c) == {p \in 1..Len(s) : s[p] = c}

Max(S) == CHOOSE x \in S : \A y \in S : y <= x

\* the last part of s when it is split on "//" from the left: what follows
\* the last run of two or more '/', with one '/' in front when the run is odd
AfterLastDoubleSlash(s) ==
    LET ends == {p \in 2..Len(s) : s[p] = "/" /\ s[p - 1] = "/"}
    IN  IF ends = {} THEN s
        ELSE LET e == Max(ends)
                 start == CHOOSE b \in 1..e :
                            /\ \A p \in b..e : s[p] = "/"
                            /\ b = 1 \/ s[b - 1] # "/"
             IN  IF (e - start + 1) % 2 = 0
                 THEN SubSeq(s, e + 1, Len(s))
                 ELSE SubSeq(s, e, Len(s))

\* C14: extract_name_from_uri_or_curie(item) returns what follows the colon
\* when item has no "http" in it and exactly one colon; otherwise the text
\* after the last '/' of the part after the last "//" when that part has a
\* '/'; otherwise it raises ValueError.
C14_ExtractName ==
    (caller = "extract_name_from_uri_or_curie" /\ pc = "done")
    => LET item == log[1].item
           path == AfterLastDoubleSlash(item)
       IN  IF ~IsInfix(sHttp, item) /\ Cardinality(Positions(item, ":")) = 1
           THEN result = [kind |-> "return",
                          value |-> PStr(SubSeq(item, Max(Positions(item, ":")) + 1, Len(item)))]
           ELSE IF Positions(path, "/") # {}
           THEN result = [kind |-> "return",
                          value |-> PStr(SubSeq(path, Max(Positions(path, "/")) + 1, Len(path)))]
           ELSE result.kind = "raise" /\ result.exc = "ValueError"

\* an item with "http" and one colon in it gave its last path segment
C14_Witness ==
    /\ caller = "extract_name_from_uri_or_curie"
    /\ pc = "done"
    /\ IsInfix(sHttp, log[1].item)
    /\ Cardinality(Positions(log[1].item, ":")) = 1
    /\ result.kind = "return"
    /\ result.value = PStr(sA)

\* C15: expand_curie_to_uri(curie, context) returns context[prefix] followed
\* by the suffix when curie has exactly one colon, the prefix is a key of the
\* context and is none of rdf, rdfs, xsd; in every other case it returns
\* curie as it is; it never raises.
C15_ExpandCurie ==
    (caller = "expand_curie_to_uri" /\ pc = "done")
    => LET curie == log[1].curie
           context == log[1].context_info
           colon == Max(Positions(curie, ":"))
           prefix == SubSeq(curie, 1, colon - 1)
           suffix == SubSeq(curie, colon + 1, Len(curie))
       IN  /\ result.kind = "return"
           /\ IF /\ Cardinality(Positions(curie, ":")) = 1
                 /\ prefix \in DOMAIN context
                 /\ prefix \notin {<<"r", "d", "f">>, <<"r", "d", "f", "s">>, <<"x", "s", "d">>}
              THEN result.value = PStr(context[prefix] \o suffix)
              ELSE result.value = PStr(curie)

\* a curie whose prefix is a key of the context and in the no-expand set
\* came back as it was, and so the expansion was refused
C15_Witness ==
    /\ caller = "expand_curie_to_uri"
    /\ pc = "done"
    /\ Cardinality(Positions(log[1].curie, ":")) = 1
    /\ SubSeq(log[1].curie, 1, Max(Positions(log[1].curie, ":")) - 1) = sRdf
    /\ sRdf \in DOMAIN log[1].context_info
    /\ result.value = PStr(log[1].curie)

====
